---- MODULE Spec2Model ----
(***************************************************************************)
(* State-machine model of fluidWall's KinectController                     *)
(* (KinectController.h / KinectController.cpp).                            *)
(*                                                                         *)
(* One KinectController object is modelled.  Its fields are the variables; *)
(* every member function is an operator from the object (a record) to the  *)
(* object after the call, and every public member function is one action.  *)
(* The OpenNI / CLNUI / OpenCV calls are the environment: their return     *)
(* codes and the frames they deliver are inputs of the actions.            *)
(***************************************************************************)
EXTENDS Integers, Sequences, FiniteSets

(***************************************************************************)
(* Program constants.                                                      *)
(***************************************************************************)
COLOR_RANGE == 255
AngleLimit == 15000
DefaultUserCount == 6

XN_STATUS_OK == "XN_STATUS_OK"
XN_STATUS_ERROR == "XN_STATUS_ERROR"
XnStatus == {XN_STATUS_OK, XN_STATUS_ERROR}

\* width of int (nuiAngle, the argument of setMotorAngle) and of an 8-bit pixel
IntMax == 2147483647
IntMin == -IntMax - 1
UcharRange == 2^8

(***************************************************************************)
(* Bounds of the model.  X_RES and Y_RES stand for XN_VGA_X_RES (640) and   *)
(* XN_VGA_Y_RES (480); MaxDepthThresh bounds depthThresh, MaxIterate the    *)
(* constructor's iterationCount, MaxCallDepth the stack (in nested calls of *)
(* update()), MaxRun the length of the run of update() calls counted.       *)
(***************************************************************************)
X_RES == 2
Y_RES == 2
MaxDepthThresh == 2
MaxIterate == 2
MaxCallDepth == 2
MaxRun == 4

Idx == 0 .. (X_RES * Y_RES - 1)
DepthThreshRange == 0 .. MaxDepthThresh

\* what CHECK_RC prints for the step of initDepthControl that failed
InitResults ==
  {"OK", "Context.Init", "DepthGenerator.Create", "DepthGenerator.SetOutputMode",
   "UserGenerator.Create", "StartGenerating"}

\* The two behaviours a build gives the undefined conversions of the code:
\* narrow: float -> uchar of a value outside 0..255 ("wrap": through a 32-bit
\*         integer, low byte kept; "saturate": clamped to 0..255);
\* overflow: int + int beyond the width ("wrap": two's complement; "wide": the
\*         sum is kept in a wider register until it is compared).
Builds == [narrow : {"wrap", "saturate"}, overflow : {"wrap", "wide"}]

VARIABLES
  maxUsers, maxIterate, iterations, depthThresh, colorByDepth,
  depthMatrix, usersMatrix, xnRetVal, xnGenerating,
  nuiMotor, initAngle, nuiAngle,
  alive,        \* the object is constructed and not yet destroyed
  build,        \* behaviour of the build on the undefined conversions
  args,         \* the constructor's arguments
  frame,        \* the frame the matrices were computed from (NoFrame: none)
  lastOp,       \* the member function called last
  lastRet,      \* what it returned
  resets,       \* reset() executions during the last call
  overflow,     \* the update()/reset() recursion exhausted the stack
  motorFault,   \* nuiMotor was destroyed or used while not live
  initFailed,   \* the init() of a reset() of the last call returned an error
  run,          \* successful update() calls since construction, while nothing
                \* else was called and nothing failed (-1: no longer so)
  runResets     \* reset() executions during those calls

vars ==
  <<maxUsers, maxIterate, iterations, depthThresh, colorByDepth,
    depthMatrix, usersMatrix, xnRetVal, xnGenerating,
    nuiMotor, initAngle, nuiAngle,
    alive, build, args, frame, lastOp, lastRet, resets, overflow, motorFault,
    initFailed, run, runResets>>

\* Mat::zeros(480,640,CV_8UC1), at the model's resolution
Zeros == [i \in Idx |-> 0]

NoFrame == [depth |-> Zeros, labels |-> Zeros]

\* the object, as the member functions see it
This ==
  [maxUsers |-> maxUsers, maxIterate |-> maxIterate, iterations |-> iterations,
   depthThresh |-> depthThresh, colorByDepth |-> colorByDepth,
   depthMatrix |-> depthMatrix, usersMatrix |-> usersMatrix,
   xnRetVal |-> xnRetVal, xnGenerating |-> xnGenerating,
   nuiMotor |-> nuiMotor, initAngle |-> initAngle, nuiAngle |-> nuiAngle,
   build |-> build, frame |-> frame, resets |-> 0, overflow |-> overflow,
   motorFault |-> motorFault, initFailed |-> FALSE]

\* the memory of the object before its constructor ran
Raw(b) ==
  [maxUsers |-> 0, maxIterate |-> 0, iterations |-> 0,
   depthThresh |-> 0, colorByDepth |-> <<0, 1>>,
   depthMatrix |-> Zeros, usersMatrix |-> Zeros,
   xnRetVal |-> XN_STATUS_OK, xnGenerating |-> FALSE,
   nuiMotor |-> "uninit", initAngle |-> 0, nuiAngle |-> 0,
   build |-> b, frame |-> NoFrame, resets |-> 0, overflow |-> FALSE,
   motorFault |-> FALSE, initFailed |-> FALSE]

(***************************************************************************)
(* Motor control.                                                          *)
(***************************************************************************)
\* SetNUIMotorPosition(nuiMotor, nuiAngle): reads the handle
SetNUIMotorPosition(k) ==
  IF k.nuiMotor = "live" THEN k ELSE [k EXCEPT !.motorFault = TRUE]

initMotorControl(k) ==
  SetNUIMotorPosition([k EXCEPT !.nuiMotor = "live"])

stopMotorControl(k) ==
  IF k.nuiMotor = "live"
    THEN [k EXCEPT !.nuiMotor = "destroyed"]
    ELSE [k EXCEPT !.motorFault = TRUE]

stopDepthControl(k) == [k EXCEPT !.xnGenerating = FALSE]

kinectCleanupExit(k) == stopMotorControl(stopDepthControl(k))

\* nuiAngle + angle in int arithmetic.  Beyond the width the build decides:
\* "wrap" keeps the low 32 bits (a + b - 2^32, a + b + 2^32); "wide" compares
\* the sum before it is narrowed, and it is above (below) every int, for
\* which IntMax (IntMin) stands.
AddInt(a, b, bld) ==
  IF b > 0 /\ a > IntMax - b THEN
    IF bld.overflow = "wide" THEN IntMax ELSE (a - IntMax) + (b - IntMax) - 2
  ELSE IF b < 0 /\ a < IntMin - b THEN
    IF bld.overflow = "wide" THEN IntMin ELSE (a - IntMin) + (b - IntMin)
  ELSE a + b

setMotorAngle_noClamp(k, angle) ==
  SetNUIMotorPosition([k EXCEPT !.nuiAngle = AddInt(k.nuiAngle, angle, k.build)])

setMotorAngle(k, angle) ==
  LET sum == AddInt(k.nuiAngle, angle, k.build)
      clamped == IF sum > AngleLimit THEN AngleLimit
                 ELSE IF sum < -AngleLimit THEN -AngleLimit ELSE sum
  IN  SetNUIMotorPosition([k EXCEPT !.nuiAngle = clamped])

resetMotorAngle_swapped(k) ==
  SetNUIMotorPosition([k EXCEPT !.initAngle = k.nuiAngle])

resetMotorAngle(k) ==
  SetNUIMotorPosition([k EXCEPT !.nuiAngle = k.initAngle])

setDepth(k, depthDelta) == [k EXCEPT !.depthThresh = k.depthThresh + depthDelta]

(***************************************************************************)
(* Depth and user tracking.                                                *)
(***************************************************************************)
\* r: "OK", or the step of the chain whose SDK call returned an error; the
\* CHECK_RC after it returns with that status in xnRetVal.
initDepthControl(k, r) ==
  IF r = "OK"
    THEN [k EXCEPT !.xnRetVal = XN_STATUS_OK, !.xnGenerating = TRUE]
    ELSE [k EXCEPT !.xnRetVal = XN_STATUS_ERROR, !.xnGenerating = FALSE]

\* colorByDepth is the float (float)COLOR_RANGE/(float)depthThresh, kept as
\* the fraction <<COLOR_RANGE, depthThresh>>.
init(k, r) ==
  LET k1 == [k EXCEPT !.colorByDepth = <<COLOR_RANGE, k.depthThresh>>,
                      !.iterations = 0,
                      !.depthMatrix = Zeros,
                      !.usersMatrix = Zeros,
                      !.frame = NoFrame]
      k2 == initDepthControl(k1, r)
  IN  IF k2.xnRetVal # XN_STATUS_OK THEN k2 ELSE initMotorControl(k2)

\* (uchar) -(pDepthMap[ind] * colorByDepth).  With colorByDepth = n/d:
\*   d > 0: the product is q + fraction, q >= 0; the conversion truncates
\*          -(q + fraction) to -q, which is 0 for q = 0 and outside uchar else;
\*   d < 0: the product is negative, its negation q + fraction truncates to q,
\*          which is outside uchar beyond 255;
\*   d = 0: colorByDepth is +infinity, the product infinite or NaN; both
\*          conversions of the builds give 0.
\* For |d| <= 6 and the depths of the model the float product truncates to the
\* same q as the exact one.
NarrowDepth(depth, cbd, bld) ==
  LET n == cbd[1]
      d == cbd[2]
  IN  IF d > 0 THEN
        LET q == (depth * n) \div d
        IN  IF q = 0 THEN 0
            ELSE IF bld.narrow = "wrap" THEN (-q) % UcharRange ELSE 0
      ELSE IF d < 0 THEN
        LET q == (depth * n) \div (-d)
        IN  IF q < UcharRange THEN q
            ELSE IF bld.narrow = "wrap" THEN q % UcharRange ELSE UcharRange - 1
      ELSE 0

toflip_depthMatrix(k, f) ==
  [ind \in Idx |->
     IF f.depth[ind] < k.depthThresh
       THEN NarrowDepth(f.depth[ind], k.colorByDepth, k.build)
       ELSE 0]

toflip_usersMatrix_inclusive(k, f) ==
  [ind \in Idx |->
     IF f.depth[ind] <= k.depthThresh THEN f.labels[ind] % UcharRange ELSE 0]

\* XnLabel is 16 bits wide, the matrix element 8
toflip_usersMatrix(k, f) ==
  [ind \in Idx |->
     IF f.depth[ind] < k.depthThresh THEN f.labels[ind] % UcharRange ELSE 0]

flip_none(src) == src

\* cv::flip(src, dst, 1): dst(y, x) = src(y, X_RES - 1 - x)
flip(src) ==
  [ind \in Idx |->
     src[(ind \div X_RES) * X_RES + (X_RES - 1 - (ind % X_RES))]]

acquire_countsFirst(k, a) ==
  IF a.wait # XN_STATUS_OK
    THEN [k EXCEPT !.xnRetVal = a.wait, !.iterations = k.iterations + 1]
    ELSE [k EXCEPT !.xnRetVal = a.wait,
                   !.depthMatrix = flip(toflip_depthMatrix(k, a.frame)),
                   !.usersMatrix = flip(toflip_usersMatrix(k, a.frame)),
                   !.frame = a.frame,
                   !.iterations = k.iterations + 1]

\* update() from WaitOneUpdateAll on; a: the status WaitOneUpdateAll returns
\* and the frame GetDepthMap() and xnSceneMD.Data() then show
acquire(k, a) ==
  IF a.wait # XN_STATUS_OK
    THEN [k EXCEPT !.xnRetVal = a.wait]
    ELSE [k EXCEPT !.xnRetVal = a.wait,
                   !.depthMatrix = flip(toflip_depthMatrix(k, a.frame)),
                   !.usersMatrix = flip(toflip_usersMatrix(k, a.frame)),
                   !.frame = a.frame,
                   !.iterations = k.iterations + 1]

\* the environment's answers to a call of update() or reset(): o.init for the
\* init() of a reset, o.acq for the acquisition of the update() called, o.acq2
\* for the acquisition of the update() that a reset() calls
Inner(o) == [init |-> o.init, acq |-> o.acq2, acq2 |-> o.acq2]

RECURSIVE update(_, _, _), reset(_, _, _)

\* depth: the calls of update() and reset() on the stack
update(k, o, depth) ==
  IF k.iterations > k.maxIterate
    THEN IF depth >= MaxCallDepth
           THEN [k EXCEPT !.overflow = TRUE]
           ELSE LET k1 == reset(k, o, depth + 1)
                IN  IF k1.overflow THEN k1 ELSE acquire(k1, o.acq)
    ELSE acquire(k, o.acq)

reset(k, o, depth) ==
  LET k1 == kinectCleanupExit([k EXCEPT !.resets = k.resets + 1])
      k2 == init([k1 EXCEPT !.iterations = 0], o.init)
      k3 == IF k2.xnRetVal # XN_STATUS_OK
              THEN [k2 EXCEPT !.initFailed = TRUE] ELSE k2
  IN  update(k3, Inner(o), depth)

\* the constructor
KinectController(userCount, iterationCount, depthValue, motorAngle, r, b) ==
  LET clamped == IF motorAngle > AngleLimit THEN AngleLimit
                 ELSE IF motorAngle < -AngleLimit THEN -AngleLimit
                 ELSE motorAngle
  IN  init([Raw(b) EXCEPT !.maxUsers = userCount,
                          !.maxIterate = iterationCount,
                          !.depthThresh = depthValue,
                          !.nuiAngle = clamped,
                          !.initAngle = clamped], r)

(***************************************************************************)
(* The actions: one per public member function.                            *)
(***************************************************************************)
Commit(k, op, ret) ==
  /\ maxUsers' = k.maxUsers
  /\ maxIterate' = k.maxIterate
  /\ iterations' = k.iterations
  /\ depthThresh' = k.depthThresh
  /\ colorByDepth' = k.colorByDepth
  /\ depthMatrix' = k.depthMatrix
  /\ usersMatrix' = k.usersMatrix
  /\ xnRetVal' = k.xnRetVal
  /\ xnGenerating' = k.xnGenerating
  /\ nuiMotor' = k.nuiMotor
  /\ initAngle' = k.initAngle
  /\ nuiAngle' = k.nuiAngle
  /\ frame' = k.frame
  /\ resets' = k.resets
  /\ overflow' = k.overflow
  /\ motorFault' = k.motorFault
  /\ initFailed' = k.initFailed
  /\ lastOp' = op
  /\ lastRet' = IF k.overflow THEN "none" ELSE ret
  /\ UNCHANGED <<build, args>>

Callable == alive /\ ~overflow

EndRun == run' = -1 /\ runResets' = 0

\* what WaitOneUpdateAll can answer: an error, or XN_STATUS_OK with a frame
NoAcq == [wait |-> XN_STATUS_ERROR, frame |-> NoFrame]

Acquisitions(Frames) ==
  {NoAcq} \cup {[wait |-> XN_STATUS_OK, frame |-> f] : f \in Frames}

\* XnStatus update().  Frames: what the call's own acquisition can read;
\* Frames2: what the acquisition of the update() inside a reset() can read.
\* Answers that the call does not ask for are not drawn.
Update(Frames, Frames2, Rs) ==
  /\ Callable
  /\ LET resetting == iterations > maxIterate
         returns == ~resetting \/ maxIterate >= 0
     IN  \E r \in (IF resetting THEN Rs ELSE {"OK"}),
            a2 \in (IF resetting /\ returns THEN Acquisitions(Frames2) ELSE {NoAcq}),
            a \in (IF returns THEN Acquisitions(Frames) ELSE {NoAcq}) :
           \E k \in {update(This, [init |-> r, acq |-> a, acq2 |-> a2], 0)} :
             LET clean == /\ run >= 0 /\ run < MaxRun
                          /\ ~k.overflow
                          /\ k.xnRetVal = XN_STATUS_OK
                          /\ r = "OK"
                          /\ (resetting => a2.wait = XN_STATUS_OK)
             IN  /\ Commit(k, "update", k.xnRetVal)
                 /\ run' = IF clean THEN run + 1 ELSE -1
                 /\ runResets' = IF clean THEN runResets + k.resets ELSE 0
  /\ UNCHANGED alive

\* XnStatus reset()
Reset(Frames2, Rs) ==
  /\ Callable
  /\ \E r \in Rs,
        a2 \in (IF maxIterate >= 0 THEN Acquisitions(Frames2) ELSE {NoAcq}) :
       \E k \in {reset(This, [init |-> r, acq |-> a2, acq2 |-> a2], 1)} :
         Commit(k, "reset", k.xnRetVal)
  /\ EndRun
  /\ UNCHANGED alive

\* XnStatus init(), called by the application
InitCall(Rs) ==
  /\ Callable
  /\ \E r \in Rs :
       \E k \in {init(This, r)} :
         Commit(k, "init", k.xnRetVal)
  /\ EndRun
  /\ UNCHANGED alive

\* void setDepth(int depthDelta)
SetDepth(Deltas) ==
  /\ Callable
  /\ \E d \in Deltas :
       /\ depthThresh + d \in DepthThreshRange
       /\ \E k \in {setDepth(This, d)} : Commit(k, "setDepth", "void")
  /\ EndRun
  /\ UNCHANGED alive

\* void setMotorAngle(int angle)
SetMotorAngle(Angles) ==
  /\ Callable
  /\ \E angle \in Angles :
       \E k \in {setMotorAngle(This, angle)} :
         Commit(k, "setMotorAngle", "void")
  /\ EndRun
  /\ UNCHANGED alive

\* void resetMotorAngle()
ResetMotorAngle ==
  /\ Callable
  /\ \E k \in {resetMotorAngle(This)} : Commit(k, "resetMotorAngle", "void")
  /\ EndRun
  /\ UNCHANGED alive

\* ~KinectController()
Destroy ==
  /\ Callable
  /\ \E k \in {kinectCleanupExit(This)} :
       Commit(k, "~KinectController", "void")
  /\ EndRun
  /\ alive' = FALSE

\* the state after KinectController(userCount, iterationCount, depthValue,
\* motorAngle), for arguments and SDK answers drawn from the given sets
Constructed(Iterates, Depths, Angles, Rs, Bs) ==
  \E it \in Iterates, dv \in Depths, ma \in Angles, r \in Rs, b \in Bs :
    LET k == KinectController(DefaultUserCount, it, dv, ma, r, b)
    IN  /\ maxUsers = k.maxUsers
        /\ maxIterate = k.maxIterate
        /\ iterations = k.iterations
        /\ depthThresh = k.depthThresh
        /\ colorByDepth = k.colorByDepth
        /\ depthMatrix = k.depthMatrix
        /\ usersMatrix = k.usersMatrix
        /\ xnRetVal = k.xnRetVal
        /\ xnGenerating = k.xnGenerating
        /\ nuiMotor = k.nuiMotor
        /\ initAngle = k.initAngle
        /\ nuiAngle = k.nuiAngle
        /\ frame = k.frame
        /\ resets = 0
        /\ overflow = FALSE
        /\ motorFault = k.motorFault
        /\ initFailed = FALSE
        /\ build = b
        /\ args = [userCount |-> DefaultUserCount, iterationCount |-> it,
                   depthValue |-> dv, motorAngle |-> ma]
        /\ alive = TRUE
        /\ lastOp = "KinectController"
        /\ lastRet = "void"
        /\ run = IF r = "OK" THEN 0 ELSE -1
        /\ runResets = 0

(***************************************************************************)
(* Inputs.  A frame carries one sample (depth, label) at every pixel but   *)
(* one, which carries another.                                             *)
(***************************************************************************)
FramesOf(Backgrounds, Samples) ==
  {[depth |-> [i \in Idx |-> IF i = p THEN s[1] ELSE b[1]],
    labels |-> [i \in Idx |-> IF i = p THEN s[2] ELSE b[2]]] :
     b \in Backgrounds, s \in Samples, p \in Idx}

UniformFrames(Samples) == FramesOf(Samples, Samples)

X86 == [narrow |-> "wrap", overflow |-> "wrap"]

(***************************************************************************)
(* Spec: the session life cycle.  Every iteration limit from -1 up, every  *)
(* failure of the initialisation chain, failing acquisitions; two frames.  *)
(***************************************************************************)
NearFrames == UniformFrames({<<0, 1>>})

LifeFrames == NearFrames \cup UniformFrames({<<MaxDepthThresh + 1, 1>>})

LifeResults == {"OK", "Context.Init", "StartGenerating"}

Init ==
  Constructed(-1 .. MaxIterate, {1}, {10000}, InitResults, {X86})

Next ==
  \/ Update(LifeFrames, LifeFrames, LifeResults)
  \/ Reset(LifeFrames, LifeResults)
  \/ InitCall(LifeResults)
  \/ SetDepth({1})
  \/ SetMotorAngle({-30000})
  \/ ResetMotorAngle
  \/ Destroy

Spec == Init /\ [][Next]_vars

(***************************************************************************)
(* SpecMotor: the tilt angle.  Constructor angles beyond both limits,      *)
(* deltas of both signs up to the ends of int, both overflow behaviours.   *)
(***************************************************************************)
MotorResults == {"OK", "Context.Init"}

MotorDeltas == {IntMin, -20000, 10000, IntMax}

InitMotor ==
  Constructed({1}, {1}, {-20000, 0, 20000}, MotorResults,
              {b \in Builds : b.narrow = "wrap"})

NextMotor ==
  \/ Update(NearFrames, NearFrames, MotorResults)
  \/ Reset(NearFrames, MotorResults)
  \/ InitCall(MotorResults)
  \/ SetDepth({1})
  \/ SetMotorAngle(MotorDeltas)
  \/ ResetMotorAngle
  \/ Destroy

SpecMotor == InitMotor /\ [][NextMotor]_vars

(***************************************************************************)
(* SpecFrame: the frame processing.  Depths below, at and above the        *)
(* threshold, labels with and without high bits, every pixel position,     *)
(* the threshold moved both ways, both narrowing behaviours.               *)
(***************************************************************************)
FrameSamples == {<<0, 1>>, <<1, 0>>, <<1, 256>>, <<1, 257>>}

ProcFrames ==
  FramesOf({<<MaxDepthThresh, 1>>}, FrameSamples) \cup UniformFrames({<<1, 1>>})

InitFrame ==
  Constructed({0}, {1}, {10000}, {"OK"}, {b \in Builds : b.overflow = "wrap"})

NextFrame ==
  \/ Update(ProcFrames, NearFrames, {"OK"})
  \/ Reset(NearFrames, {"OK"})
  \/ InitCall({"OK"})
  \/ SetDepth({-1, 1})
  \/ SetMotorAngle({0})
  \/ ResetMotorAngle
  \/ Destroy

SpecFrame == InitFrame /\ [][NextFrame]_vars

(***************************************************************************)
(* The claims.                                                             *)
(***************************************************************************)
Succeeded == lastOp = "update" /\ lastRet = XN_STATUS_OK

\* the element of a matrix at column x of row y
At(m, x, y) == m[y * X_RES + x]

Cols == 0 .. (X_RES - 1)
Rows == 0 .. (Y_RES - 1)

\* C1: constructed with maxIterate = 2 and with every SDK call succeeding,
\* after 3 update() calls exactly one reset has happened and the iteration
\* counter is 1.
C1_OneResetPerMaxIterate ==
  (args.iterationCount = 2 /\ run = 3) => (runResets = 1 /\ iterations = 1)

\* C2: when the init() inside a reset() fails, the reset() and the update()
\* that triggered it return a status other than XN_STATUS_OK.
C2_FailedResetSurfaced ==
  (initFailed /\ ~overflow) => lastRet # XN_STATUS_OK

\* C3: the current and the initial tilt angle are within [-15000, 15000] in
\* every state, and a constructor angle beyond a limit is stored as the limit.
C3_AngleClamped ==
  /\ nuiAngle >= -15000 /\ nuiAngle <= 15000
  /\ initAngle >= -15000 /\ initAngle <= 15000
  /\ (args.motorAngle = 20000 => initAngle = 15000)
  /\ (args.motorAngle = -20000 => initAngle = -15000)

C3_Witness ==
  /\ lastOp = "setMotorAngle"
  /\ args.motorAngle = 20000
  /\ initAngle = 15000
  /\ nuiAngle = -15000

\* C4: the scale a successful update() used is 255 / depthThresh for the
\* depthThresh it compared with.
C4_ScaleFollowsDepth ==
  Succeeded => colorByDepth[1] * depthThresh = COLOR_RANGE * colorByDepth[2]

\* C5 as stated: after a successful update(), a pixel with rawDepth below
\* depthThresh is non-zero in both matrices at the mirrored coordinate, and
\* every other pixel is zero in both.
C5_NonZeroBelowThreshold ==
  Succeeded =>
    \A x \in Cols, y \in Rows :
      IF At(frame.depth, x, y) < depthThresh
        THEN /\ At(depthMatrix, X_RES - 1 - x, y) # 0
             /\ At(usersMatrix, X_RES - 1 - x, y) # 0
        ELSE /\ At(depthMatrix, X_RES - 1 - x, y) = 0
             /\ At(usersMatrix, X_RES - 1 - x, y) = 0

\* C5 as amended: after a successful update(), a pixel with rawDepth not below
\* depthThresh is zero in both matrices at the mirrored coordinate; for a pixel
\* below it the users matrix is non-zero there exactly when the low 8 bits of
\* its label are, and the depth matrix is zero there when rawDepth is 0.
C5_ZeroOutsideThreshold ==
  Succeeded =>
    \A x \in Cols, y \in Rows :
      IF At(frame.depth, x, y) < depthThresh
        THEN /\ (At(usersMatrix, X_RES - 1 - x, y) # 0)
                  <=> (At(frame.labels, x, y) % 256 # 0)
             /\ (At(frame.depth, x, y) = 0
                  => At(depthMatrix, X_RES - 1 - x, y) = 0)
        ELSE /\ At(depthMatrix, X_RES - 1 - x, y) = 0
             /\ At(usersMatrix, X_RES - 1 - x, y) = 0

\* a successful update() of a frame with a pixel below the threshold whose
\* label has only high bits, and a pixel not below the threshold
C5_Witness ==
  /\ Succeeded
  /\ \E x \in Cols, y \in Rows :
       /\ At(frame.depth, x, y) < depthThresh
       /\ At(frame.labels, x, y) = 256
       /\ At(usersMatrix, X_RES - 1 - x, y) = 0
  /\ \E x \in Cols, y \in Rows : At(frame.depth, x, y) >= depthThresh

\* C6: nuiMotor is destroyed, and used, only while it is live.
C6_MotorHandleLive == ~motorFault

\* C7: after resetMotorAngle() the current angle is the angle recorded at
\* construction, which is the constructor's angle clamped and never changes.
C7_ResetRestoresInitial ==
  /\ lastOp = "resetMotorAngle" => nuiAngle = initAngle
  /\ initAngle = (IF args.motorAngle > 15000 THEN 15000
                  ELSE IF args.motorAngle < -15000 THEN -15000
                  ELSE args.motorAngle)

\* resetMotorAngle() after the angle was moved to the other limit and the
\* session was reset
C7_Witness ==
  /\ lastOp = "resetMotorAngle"
  /\ args.motorAngle = -20000
  /\ nuiAngle = -15000
  /\ nuiMotor = "live"
  /\ iterations > 0

\* C8: after a successful update() the matrices are the horizontal mirror of
\* the thresholded frame: a pixel with rawDepth >= depthThresh is 0 in both at
\* (X_RES-1-x, y), a pixel below it has its label mod 256 in the users matrix
\* there.
C8_MirroredThreshold ==
  Succeeded =>
    \A x \in Cols, y \in Rows :
      IF At(frame.depth, x, y) >= depthThresh
        THEN /\ At(depthMatrix, X_RES - 1 - x, y) = 0
             /\ At(usersMatrix, X_RES - 1 - x, y) = 0
        ELSE At(usersMatrix, X_RES - 1 - x, y) = At(frame.labels, x, y) % 256

\* a successful update() of a frame that is not its own mirror image, with a
\* pixel exactly at the threshold and a label wider than 8 bits
C8_Witness ==
  /\ Succeeded
  /\ \E x \in Cols, y \in Rows :
       /\ At(frame.depth, x, y) < depthThresh
       /\ At(frame.labels, x, y) = 257
       /\ At(usersMatrix, X_RES - 1 - x, y) = 1
       /\ At(usersMatrix, x, y) = 0
  /\ \E x \in Cols, y \in Rows : At(frame.depth, x, y) = depthThresh

\* C9: every update() returns and runs reset() at most once.
C9_RecursionDepthOne == ~overflow /\ resets <= 1

\* C10 as stated: an update() that returns an error leaves the iteration
\* counter and both matrices as they were.
C10_FailedUpdateNoEffect ==
  [][(lastOp' = "update" /\ lastRet' = XN_STATUS_ERROR)
       => /\ iterations' = iterations
          /\ depthMatrix' = depthMatrix
          /\ usersMatrix' = usersMatrix]_vars

\* C10 as amended: an update() called with iterations <= maxIterate that
\* returns an error leaves the iteration counter and both matrices as they
\* were.
C10_FailedUpdateNoEffectUnlessReset ==
  [][(lastOp' = "update" /\ lastRet' = XN_STATUS_ERROR
        /\ iterations <= maxIterate)
       => /\ iterations' = iterations
          /\ depthMatrix' = depthMatrix
          /\ usersMatrix' = usersMatrix]_vars

\* a failed update() that ran no reset, after a frame was processed
C10_Witness ==
  /\ lastOp = "update"
  /\ lastRet = XN_STATUS_ERROR
  /\ resets = 0
  /\ iterations > 0
  /\ usersMatrix # Zeros

====
